---- MODULE Spec2Model ----
(***************************************************************************)
(* Model of the auction program of src/program/src/processor.rs: the four  *)
(* instructions Exhibit (Create), Bid, Cancel and Close acting on one      *)
(* escrow account (the Auction Record) and on SPL token accounts.          *)
(*                                                                         *)
(* Host rules the model relies on:                                         *)
(*  - an instruction that returns Err leaves no effect (the runtime rolls  *)
(*    the transaction back), so a rejected instruction is a stuttering     *)
(*    step; what it would return in a state is BidResult, CancelResult,    *)
(*    CloseResult of the inputs;                                           *)
(*  - a token call that fails ends the instruction at the call: the       *)
(*    runtime fails the transaction there and rolls it back, whether the   *)
(*    source propagates the value of invoke / invoke_signed with `?` or    *)
(*    drops it, so the statements after a failed call are never run;       *)
(*  - nobody can sign as Pubkey::default() or as the program address;      *)
(*  - the token program is the deployed SPL Token program: a transfer      *)
(*    needs both accounts to exist with one mint, enough balance and the   *)
(*    owner's signature (a transfer from an account to itself passes the   *)
(*    same checks and moves nothing), SetAuthority needs the owner's       *)
(*    signature, CloseAccount needs the owner's signature and a zero       *)
(*    balance;                                                             *)
(*  - the escrow account is not allocated again after it was emptied.      *)
(***************************************************************************)
EXTENDS Integers, FiniteSets, Sequences, TLC

\* ---------------------------------------------------------------- bounds
MaxTime == 1
MaxPrice == 3

\* ------------------------------------------------------------- constants
RentExemptMin == 2
TokenRent == 1
NftSupply == 1
InitialPrices == {0}

\* what the two bidders own at the start
BalanceA == MaxPrice - 1
BalanceB == MaxPrice

\* ------------------------------------------------------------ identities
Default == "default"
PDA == "pda"
Wallets == {"E", "A", "B"}
Bidders == {"A", "B"}
NftAccts == {"Enft", "Tnft", "Anft", "Bnft"}
FtAccts == {"Eft", "Aft", "Atmp", "Bft", "Btmp"}
TokenAccts == NftAccts \cup FtAccts

Mint(a) == IF a \in NftAccts THEN "nft" ELSE "ft"

\* -------------------------------------------------- 64-bit time values
\* A timestamp or duration is written [top, low] and stands for
\* top * 2^63 + low; low is a small integer of either sign, far below 2^63
\* in size, so that 2^63 - 1 is [1, -1] and every value is written one way.
Wide(t, l) == [top |-> t, low |-> l]

\* the values of i64: -2^63 .. 2^63 - 1
InI64(v) ==
    \/ v.top = 0
    \/ (v.top = -1 /\ v.low >= 0)
    \/ (v.top = 1 /\ v.low < 0)

\* reduction modulo 2^64 into the range of i64
WrapI64(v) ==
    IF InI64(v) THEN v
    ELSE IF v.top >= 1 THEN Wide(v.top - 2, v.low)
    ELSE Wide(v.top + 2, v.low)

\* `x as i64` for x: u64 (a value from 2^63 up loses 2^64)
AsI64(u) == WrapI64(u)

\* the i64 addition of line 87 overflows
AddI64Overflows(a, b) == ~InI64(Wide(a.top + b.top, a.low + b.low))

\* the i64 subtraction a - b of line 330 overflows
SubI64Overflows(a, b) == ~InI64(Wide(a.top - b.top, a.low - b.low))

\* i64 addition of a timestamp and an offset as a build without overflow
\* checks computes it: the sum modulo 2^64.  A build with overflow checks
\* panics where AddI64Overflows holds.
AddI64(a, b) == WrapI64(Wide(a.top + b.top, a.low + b.low))

\* a <= b and a > b on i64 values
LeI64(a, b) == a.top < b.top \/ (a.top = b.top /\ a.low <= b.low)
GtI64(a, b) == ~LeI64(a, b)

\* 0, 1, 2^63 - 1 (the largest offset that stays positive) and 2^63
Durations == {Wide(0, 0), Wide(0, 1), Wide(1, -1), Wide(1, 0)}

\* ---------------------------------------------------------------- state
VARIABLES
    now,        \* Clock::unix_timestamp (low part; top is 0)
    auction,    \* data of the escrow account (state::Auction)
    lamports,   \* lamports of the wallets and of the escrow account
    tok,        \* SPL token accounts
    last,       \* the last step that took effect
    bids,       \* number of Bids that succeeded
    phase       \* NonExistent, Open, Cancelled, Settled

vars == <<now, auction, lamports, tok, last, bids, phase>>

Clock == Wide(0, now)

\* zeroed account data of Auction::LEN bytes
ZeroAuction ==
    [ has_data |-> TRUE,
      is_initialized |-> FALSE,
      exhibitor_pubkey |-> Default,
      exhibiting_nft_temp_pubkey |-> Default,
      exhibitor_ft_receiving_pubkey |-> Default,
      price |-> 0,
      end_at |-> Wide(0, 0),
      highest_bidder_pubkey |-> Default,
      highest_bidder_ft_temp_pubkey |-> Default,
      highest_bidder_ft_returning_pubkey |-> Default ]

\* account data after `*escrow_account.try_borrow_mut_data()? = &mut []`
EmptyData == [ZeroAuction EXCEPT !.has_data = FALSE]

ClosedToken == [exists |-> FALSE, owner |-> Default, amount |-> 0]

World == [tok |-> tok, lam |-> lamports, auc |-> auction]

\* ------------------------------------------------- SPL token operations
IsTokenAccount(t, a) == a \in TokenAccts /\ t[a].exists

\* spl_token Transfer: source -> destination, signed by `authority`
TransferOk(t, src, dst, authority, signed, amount) ==
    /\ IsTokenAccount(t, src)
    /\ IsTokenAccount(t, dst)
    /\ Mint(src) = Mint(dst)
    /\ t[src].amount >= amount
    /\ t[src].owner = authority
    /\ signed

TransferApply(t, src, dst, amount) ==
    IF src = dst THEN t
    ELSE [t EXCEPT ![src].amount = @ - amount, ![dst].amount = @ + amount]

\* spl_token SetAuthority(AccountOwner)
SetAuthorityOk(t, acct, current, signed) ==
    /\ IsTokenAccount(t, acct)
    /\ t[acct].owner = current
    /\ signed

SetAuthorityApply(t, acct, new) == [t EXCEPT ![acct].owner = new]

\* spl_token CloseAccount
CloseAccountOk(t, acct, dest, authority, signed) ==
    /\ IsTokenAccount(t, acct)
    /\ acct # dest
    /\ t[acct].amount = 0
    /\ t[acct].owner = authority
    /\ signed

CloseAccountApply(w, acct, dest) ==
    [w EXCEPT !.tok[acct] = ClosedToken,
              !.lam = IF dest \in DOMAIN w.lam
                      THEN [w.lam EXCEPT ![dest] = @ + TokenRent]
                      ELSE w.lam]

\* the program address signs through invoke_signed only when the account
\* passed as pda_account is the derived address
PdaSigns(pda_account) == pda_account = PDA

Result(r, w, f) == [res |-> r, w |-> w, cpi_failed |-> f]

\* ------------------------------------------------------------- Exhibit
\* rent.is_exempt(lamports, data_len): the minimum grows with data_len
Rent_is_exempt(w) ==
    w.lam["escrow"] >= (IF w.auc.has_data THEN RentExemptMin
                                          ELSE RentExemptMin - 1)

\* variant: the Record names the proceeds account as the item's custody
ExhibitRecord_WrongCustody(auc, exhibitor, nft_temp, ft_recv, initial_price, secs, clock) ==
    [auc EXCEPT !.is_initialized = TRUE,
                !.exhibitor_pubkey = exhibitor,
                !.exhibiting_nft_temp_pubkey = ft_recv,
                !.exhibitor_ft_receiving_pubkey = ft_recv,
                !.price = initial_price,
                !.end_at = AddI64(clock, AsI64(secs))]

ExhibitRecord(auc, exhibitor, nft_temp, ft_recv, initial_price, secs, clock) ==
    [auc EXCEPT !.is_initialized = TRUE,
                !.exhibitor_pubkey = exhibitor,
                !.exhibiting_nft_temp_pubkey = nft_temp,
                !.exhibitor_ft_receiving_pubkey = ft_recv,
                !.price = initial_price,
                !.end_at = AddI64(clock, AsI64(secs))]

\* overflow_checks: the program was built with overflow checks, so that the
\* addition of line 87 panics on overflow and the instruction fails
process_exhibit(w, clock, exhibitor, is_signer, nft_acc, nft_temp, ft_recv, initial_price, secs, overflow_checks) ==
    IF ~is_signer THEN Result("MissingRequiredSignature", w, FALSE)
    ELSE IF ~Rent_is_exempt(w) THEN Result("NotRentExempt", w, FALSE)
    ELSE IF ~w.auc.has_data THEN Result("InvalidAccountData", w, FALSE)
    ELSE IF w.auc.is_initialized
        THEN Result("AccountAlreadyInitialized", w, FALSE)
    ELSE IF overflow_checks /\ AddI64Overflows(clock, AsI64(secs))
        THEN Result("Panic", w, FALSE)
    ELSE
      LET w1 == [w EXCEPT !.auc = ExhibitRecord(w.auc, exhibitor, nft_temp,
                                 ft_recv, initial_price, secs, clock)]
      IN IF ~TransferOk(w1.tok, nft_acc, nft_temp, exhibitor, TRUE, NftSupply)
           THEN Result("TokenError", w1, TRUE)
         ELSE
           LET w2 == [w1 EXCEPT !.tok = TransferApply(w1.tok, nft_acc,
                                                      nft_temp, NftSupply)]
           IN IF ~SetAuthorityOk(w2.tok, nft_temp, exhibitor, TRUE)
                THEN Result("TokenError", w2, TRUE)
              ELSE Result("Ok",
                     [w2 EXCEPT !.tok = SetAuthorityApply(w2.tok, nft_temp, PDA)],
                     FALSE)

\* ----------------------------------------------------- Auction::unpack
\* Pack::unpack: wrong length, then the IsInitialized check
UnpackError(auc) ==
    IF ~auc.has_data THEN "InvalidAccountData"
    ELSE IF ~auc.is_initialized THEN "UninitializedAccount"
    ELSE "Ok"

\* ----------------------------------------------------------------- Bid
\* A step is the accounts after one or more token calls; failed says that a
\* call failed, which ends the instruction at that call.
Step(w, f) == [w |-> w, failed |-> f]

\* variant: the temporary account is left open
close_temporary_ft_LeaveOpen(w, ft_temp, highest_bidder, pda_account) ==
    Step(w, FALSE)

\* close_temporary_ft: Ok(()) is all the function returns, and it is reached
\* only when the token program closed the account; a close that fails ends
\* the instruction inside invoke_signed
close_temporary_ft(w, ft_temp, highest_bidder, pda_account) ==
    IF CloseAccountOk(w.tok, ft_temp, highest_bidder, PDA, PdaSigns(pda_account))
      THEN Step(CloseAccountApply(w, ft_temp, highest_bidder), FALSE)
      ELSE Step(w, TRUE)

\* refund of the previous leader; a transfer that fails ends the instruction
\* inside invoke_signed
RefundPrevious(w, hb_temp, hb_returning, pda_account) ==
    IF TransferOk(w.tok, hb_temp, hb_returning, PDA, PdaSigns(pda_account),
                  w.auc.price)
      THEN Step([w EXCEPT !.tok = TransferApply(w.tok, hb_temp, hb_returning,
                                                w.auc.price)], FALSE)
      ELSE Step(w, TRUE)

\* variant: a refund or a close that fails is passed over and the Bid goes on
BidSettlePrevious_FailureDropped(w, hb, hb_temp, hb_returning, pda_account) ==
    IF w.auc.highest_bidder_pubkey # Default
      THEN LET r == RefundPrevious(w, hb_temp, hb_returning, pda_account)
               c == close_temporary_ft(r.w, hb_temp, hb, pda_account)
           IN Step(c.w, FALSE)
      ELSE Step(w, FALSE)

\* the block `if auction_info.highest_bidder_pubkey != Pubkey::default()`:
\* the refund, then the close of the previous leader's temporary account
BidSettlePrevious(w, hb, hb_temp, hb_returning, pda_account) ==
    IF w.auc.highest_bidder_pubkey # Default
      THEN LET r == RefundPrevious(w, hb_temp, hb_returning, pda_account)
           IN IF r.failed THEN r
              ELSE close_temporary_ft(r.w, hb_temp, hb, pda_account)
      ELSE Step(w, FALSE)

\* variant: the Record goes on naming the previous leader's temporary account
BidRecord_KeepTemp(auc, bidder, bidder_temp, bidder_ft, price) ==
    [auc EXCEPT !.price = price,
                !.highest_bidder_pubkey = bidder,
                !.highest_bidder_ft_returning_pubkey = bidder_ft]

BidRecord(auc, bidder, bidder_temp, bidder_ft, price) ==
    [auc EXCEPT !.price = price,
                !.highest_bidder_pubkey = bidder,
                !.highest_bidder_ft_temp_pubkey = bidder_temp,
                !.highest_bidder_ft_returning_pubkey = bidder_ft]

\* variant: a Bid is still let through at the instant now = end_at
BidExpired_StrictlyAfter(auc, clock) ==
    LeI64(auc.end_at, clock) /\ auc.end_at # clock

BidExpired(auc, clock) == LeI64(auc.end_at, clock)


\* variant: a bid equal to the price is let through
BidTooLow_AllowEqual(auc, price) == auc.price > price

BidTooLow(auc, price) == auc.price >= price

\* variant: the leader is allowed to bid again
BidLeaderCheck_NoRebidCheck(auc, bidder, hb, hb_temp, hb_returning) ==
    IF auc.highest_bidder_ft_temp_pubkey # hb_temp THEN "InvalidInstruction"
    ELSE IF auc.highest_bidder_ft_returning_pubkey # hb_returning
        THEN "InvalidInstruction"
    ELSE IF auc.highest_bidder_pubkey # hb THEN "InvalidInstruction"
    ELSE "Ok"

\* variant: the supplied refund account is not compared with the stored one
BidLeaderCheck_NoReturningCheck(auc, bidder, hb, hb_temp, hb_returning) ==
    IF auc.highest_bidder_ft_temp_pubkey # hb_temp THEN "InvalidInstruction"
    ELSE IF auc.highest_bidder_pubkey # hb THEN "InvalidInstruction"
    ELSE IF auc.highest_bidder_pubkey = bidder THEN "AlreadyBid"
    ELSE "Ok"

\* the four comparisons with the stored leader; "Ok" when all pass
BidLeaderCheck(auc, bidder, hb, hb_temp, hb_returning) ==
    IF auc.highest_bidder_ft_temp_pubkey # hb_temp THEN "InvalidInstruction"
    ELSE IF auc.highest_bidder_ft_returning_pubkey # hb_returning
        THEN "InvalidInstruction"
    ELSE IF auc.highest_bidder_pubkey # hb THEN "InvalidInstruction"
    ELSE IF auc.highest_bidder_pubkey = bidder THEN "AlreadyBid"
    ELSE "Ok"


\* variant: the temporary account is not handed to the program address
BidDeposit_KeepOwner(w, bidder, bidder_temp, bidder_ft, price) ==
    IF ~TransferOk(w.tok, bidder_ft, bidder_temp, bidder, TRUE, price)
      THEN Step(w, TRUE)
      ELSE Step([w EXCEPT !.tok = TransferApply(w.tok, bidder_ft, bidder_temp,
                                                price)], FALSE)

\* transfer of the bid into the bidder's temporary account, then the change
\* of its owner to the program address; both results are propagated
BidDeposit(w, bidder, bidder_temp, bidder_ft, price) ==
    IF ~TransferOk(w.tok, bidder_ft, bidder_temp, bidder, TRUE, price)
      THEN Step(w, TRUE)
    ELSE
      LET w1 == [w EXCEPT !.tok = TransferApply(w.tok, bidder_ft, bidder_temp,
                                                price)]
      IN IF ~SetAuthorityOk(w1.tok, bidder_temp, bidder, TRUE)
           THEN Step(w1, TRUE)
           ELSE Step([w1 EXCEPT !.tok = SetAuthorityApply(w1.tok, bidder_temp,
                                                          PDA)], FALSE)

\* variant: the previous leader is refunded before the new bid is taken in
BidStages_RefundFirst(w, bidder, hb, hb_temp, hb_returning, bidder_temp, bidder_ft, pda_account, price) ==
    LET led == w.auc.highest_bidder_pubkey # Default
        r == RefundPrevious(w, hb_temp, hb_returning, pda_account)
        c == close_temporary_ft(r.w, hb_temp, hb, pda_account)
        w1 == IF led THEN r.w ELSE w
        w2 == IF led THEN c.w ELSE w1
    IN IF led /\ r.failed THEN <<w>>
       ELSE IF led /\ c.failed THEN <<w, w1>>
       ELSE IF ~TransferOk(w2.tok, bidder_ft, bidder_temp, bidder, TRUE, price)
         THEN <<w, w1, w2>>
       ELSE
         LET w3 == [w2 EXCEPT !.tok = TransferApply(w2.tok, bidder_ft,
                                                    bidder_temp, price)]
         IN IF ~SetAuthorityOk(w3.tok, bidder_temp, bidder, TRUE)
              THEN <<w, w1, w2, w3>>
            ELSE
              LET w4 == [w3 EXCEPT !.tok = SetAuthorityApply(w3.tok,
                                                        bidder_temp, PDA)]
                  w5 == [w4 EXCEPT !.auc = BidRecord(w4.auc, bidder,
                                            bidder_temp, bidder_ft, price)]
              IN <<w, w1, w2, w3, w4, w5>>

\* the accounts as they stand on entry and after each token call and the
\* Record update of a Bid that has passed the guards, in the order of the
\* source; the sequence ends at the call whose failure ends the instruction
BidStages(w, bidder, hb, hb_temp, hb_returning, bidder_temp, bidder_ft, pda_account, price) ==
    IF ~TransferOk(w.tok, bidder_ft, bidder_temp, bidder, TRUE, price)
      THEN <<w>>
    ELSE
      LET w1 == [w EXCEPT !.tok = TransferApply(w.tok, bidder_ft, bidder_temp,
                                                price)]
      IN IF ~SetAuthorityOk(w1.tok, bidder_temp, bidder, TRUE)
           THEN <<w, w1>>
         ELSE
           LET led == w.auc.highest_bidder_pubkey # Default
               w2 == [w1 EXCEPT !.tok = SetAuthorityApply(w1.tok, bidder_temp,
                                                          PDA)]
               r == RefundPrevious(w2, hb_temp, hb_returning, pda_account)
               c == close_temporary_ft(r.w, hb_temp, hb, pda_account)
               w3 == IF led THEN r.w ELSE w2
               w4 == IF led THEN c.w ELSE w3
               w5 == [w4 EXCEPT !.auc = BidRecord(w4.auc, bidder, bidder_temp,
                                                  bidder_ft, price)]
           IN IF led /\ r.failed THEN <<w, w1, w2>>
              ELSE IF led /\ c.failed THEN <<w, w1, w2, w3>>
              ELSE <<w, w1, w2, w3, w4, w5>>

process_bid(w, clock, bidder, is_signer, hb, hb_temp, hb_returning, bidder_temp, bidder_ft, pda_account, price) ==
    IF ~is_signer THEN Result("MissingRequiredSignature", w, FALSE)
    ELSE IF UnpackError(w.auc) # "Ok" THEN Result(UnpackError(w.auc), w, FALSE)
    ELSE IF BidExpired(w.auc, clock) THEN Result("InactiveAuction", w, FALSE)
    ELSE IF BidTooLow(w.auc, price) THEN Result("InsufficientBidPrice", w, FALSE)
    ELSE IF BidLeaderCheck(w.auc, bidder, hb, hb_temp, hb_returning) # "Ok"
        THEN Result(BidLeaderCheck(w.auc, bidder, hb, hb_temp, hb_returning),
                    w, FALSE)
    ELSE
      LET d == BidDeposit(w, bidder, bidder_temp, bidder_ft, price)
      IN IF d.failed THEN Result("TokenError", d.w, TRUE)
         ELSE
           LET s == BidSettlePrevious(d.w, hb, hb_temp, hb_returning,
                                      pda_account)
           IN IF s.failed THEN Result("TokenError", s.w, TRUE)
              ELSE Result("Ok",
                     [s.w EXCEPT !.auc = BidRecord(s.w.auc, bidder,
                                             bidder_temp, bidder_ft, price)],
                     FALSE)

\* ------------------------------------------------- Cancel and Close
\* escrow_is_closing: the close of the item's temporary account, which ends
\* the instruction inside invoke_signed when it fails; then the escrow's
\* lamports go to the exhibitor and the escrow data is emptied.  (checked_add
\* cannot overflow: the sum of all lamports on the ledger is below 2^64.)
CloseItemAccount(w, nft_temp, exhibitor, pda_account) ==
    IF CloseAccountOk(w.tok, nft_temp, exhibitor, PDA, PdaSigns(pda_account))
      THEN Step(CloseAccountApply(w, nft_temp, exhibitor), FALSE)
      ELSE Step(w, TRUE)


\* variant: the escrow is emptied but its lamports are not given to anybody
DestroyRecord_NoCredit(w, exhibitor) ==
    [w EXCEPT !.lam = [w.lam EXCEPT !["escrow"] = 0],
              !.auc = EmptyData]

\* variant: the lamports are moved but the escrow data is left in place
DestroyRecord_KeepData(w, exhibitor) ==
    [w EXCEPT !.lam = [w.lam EXCEPT ![exhibitor] = @ + w.lam["escrow"],
                                    !["escrow"] = 0]]

DestroyRecord(w, exhibitor) ==
    [w EXCEPT !.lam = [w.lam EXCEPT ![exhibitor] = @ + w.lam["escrow"],
                                    !["escrow"] = 0],
              !.auc = EmptyData]

escrow_is_closing(w, nft_temp, exhibitor, pda_account) ==
    LET c == CloseItemAccount(w, nft_temp, exhibitor, pda_account)
    IN IF c.failed THEN c
       ELSE Step(DestroyRecord(c.w, exhibitor), FALSE)


\* TokenAccount::unpack(..)? of an account that is no token account
TokenUnpackFails(w, a) == ~IsTokenAccount(w.tok, a)

\* transfer of the whole live balance of `src`, signed by the program
\* address; the result is propagated
MoveAll(w, src, dst, pda_account) ==
    IF ~IsTokenAccount(w.tok, src) THEN Step(w, TRUE)
    ELSE IF ~TransferOk(w.tok, src, dst, PDA, PdaSigns(pda_account),
                        w.tok[src].amount)
      THEN Step(w, TRUE)
    ELSE Step([w EXCEPT !.tok = TransferApply(w.tok, src, dst,
                                              w.tok[src].amount)], FALSE)


\* variant: the caller is not compared with the stored exhibitor
CancelCheck_NoExhibitorCheck(auc, exhibitor, nft_temp) ==
    IF auc.exhibiting_nft_temp_pubkey # nft_temp THEN "InvalidAccountData"
    ELSE IF auc.highest_bidder_pubkey # Default THEN "AlreadyBid"
    ELSE "Ok"

\* variant: the comparison of the leader with Pubkey::default() is missing
CancelCheck_NoBidCheck(auc, exhibitor, nft_temp) ==
    IF auc.exhibitor_pubkey # exhibitor THEN "InvalidAccountData"
    ELSE IF auc.exhibiting_nft_temp_pubkey # nft_temp THEN "InvalidAccountData"
    ELSE "Ok"

CancelCheck(auc, exhibitor, nft_temp) ==
    IF auc.exhibitor_pubkey # exhibitor THEN "InvalidAccountData"
    ELSE IF auc.exhibiting_nft_temp_pubkey # nft_temp THEN "InvalidAccountData"
    ELSE IF auc.highest_bidder_pubkey # Default THEN "AlreadyBid"
    ELSE "Ok"

process_cancel(w, exhibitor, is_signer, nft_temp, nft_returning, pda_account) ==
    IF ~is_signer THEN Result("MissingRequiredSignature", w, FALSE)
    ELSE IF UnpackError(w.auc) # "Ok" THEN Result(UnpackError(w.auc), w, FALSE)
    ELSE IF CancelCheck(w.auc, exhibitor, nft_temp) # "Ok"
        THEN Result(CancelCheck(w.auc, exhibitor, nft_temp), w, FALSE)
    ELSE IF TokenUnpackFails(w, nft_temp)
        THEN Result("InvalidAccountData", w, FALSE)
    ELSE
      LET m == MoveAll(w, nft_temp, nft_returning, pda_account)
      IN IF m.failed THEN Result("TokenError", m.w, TRUE)
         ELSE LET e == escrow_is_closing(m.w, nft_temp, exhibitor, pda_account)
              IN IF e.failed THEN Result("TokenError", e.w, TRUE)
                 ELSE Result("Ok", e.w, FALSE)


\* variant: Close is let through one second before end_at
CloseTooEarly_OneEarly(auc, clock) ==
    GtI64(auc.end_at, AddI64(clock, Wide(0, 1)))

CloseTooEarly(auc, clock) == GtI64(auc.end_at, clock)


\* variant: the supplied proceeds account is not compared with the stored one
CloseCheck_NoProceedsCheck(auc, caller, exhibitor, nft_temp, ft_recv, hb_temp) ==
    IF auc.exhibitor_pubkey # exhibitor THEN "InvalidAccountData"
    ELSE IF auc.exhibiting_nft_temp_pubkey # nft_temp THEN "InvalidAccountData"
    ELSE IF auc.highest_bidder_ft_temp_pubkey # hb_temp
        THEN "InvalidAccountData"
    ELSE IF auc.highest_bidder_pubkey # caller THEN "InvalidAccountData"
    ELSE "Ok"

\* variant: the exhibitor is accepted as caller as well as the leader
CloseCheck_ExhibitorMayClose(auc, caller, exhibitor, nft_temp, ft_recv, hb_temp) ==
    IF auc.exhibitor_pubkey # exhibitor THEN "InvalidAccountData"
    ELSE IF auc.exhibiting_nft_temp_pubkey # nft_temp THEN "InvalidAccountData"
    ELSE IF auc.exhibitor_ft_receiving_pubkey # ft_recv
        THEN "InvalidAccountData"
    ELSE IF auc.highest_bidder_ft_temp_pubkey # hb_temp
        THEN "InvalidAccountData"
    ELSE IF auc.highest_bidder_pubkey # caller /\ auc.exhibitor_pubkey # caller
        THEN "InvalidAccountData"
    ELSE "Ok"

\* variant: the caller is not compared with the stored leader
CloseCheck_NoCallerCheck(auc, caller, exhibitor, nft_temp, ft_recv, hb_temp) ==
    IF auc.exhibitor_pubkey # exhibitor THEN "InvalidAccountData"
    ELSE IF auc.exhibiting_nft_temp_pubkey # nft_temp THEN "InvalidAccountData"
    ELSE IF auc.exhibitor_ft_receiving_pubkey # ft_recv
        THEN "InvalidAccountData"
    ELSE IF auc.highest_bidder_ft_temp_pubkey # hb_temp
        THEN "InvalidAccountData"
    ELSE "Ok"

CloseCheck(auc, caller, exhibitor, nft_temp, ft_recv, hb_temp) ==
    IF auc.exhibitor_pubkey # exhibitor THEN "InvalidAccountData"
    ELSE IF auc.exhibiting_nft_temp_pubkey # nft_temp THEN "InvalidAccountData"
    ELSE IF auc.exhibitor_ft_receiving_pubkey # ft_recv
        THEN "InvalidAccountData"
    ELSE IF auc.highest_bidder_ft_temp_pubkey # hb_temp
        THEN "InvalidAccountData"
    ELSE IF auc.highest_bidder_pubkey # caller THEN "InvalidAccountData"
    ELSE "Ok"

\* overflow_checks: the program was built with overflow checks, so that the
\* subtraction in the message of line 330 panics on overflow
closing_the_process(w, clock, caller, is_signer, exhibitor, nft_temp, ft_recv, hb_temp, nft_recv, pda_account, overflow_checks) ==
    IF ~is_signer THEN Result("MissingRequiredSignature", w, FALSE)
    ELSE IF UnpackError(w.auc) # "Ok" THEN Result(UnpackError(w.auc), w, FALSE)
    ELSE IF CloseTooEarly(w.auc, clock)
        THEN IF overflow_checks /\ SubI64Overflows(w.auc.end_at, clock)
               THEN Result("Panic", w, FALSE)
               ELSE Result("ActiveAuction", w, FALSE)
    ELSE IF CloseCheck(w.auc, caller, exhibitor, nft_temp, ft_recv, hb_temp)
              # "Ok"
        THEN Result(CloseCheck(w.auc, caller, exhibitor, nft_temp, ft_recv,
                               hb_temp), w, FALSE)
    ELSE IF TokenUnpackFails(w, nft_temp)
        THEN Result("InvalidAccountData", w, FALSE)
    ELSE
      LET m1 == MoveAll(w, nft_temp, nft_recv, pda_account)
      IN IF m1.failed THEN Result("TokenError", m1.w, TRUE)
         ELSE IF TokenUnpackFails(m1.w, hb_temp)
           THEN Result("InvalidAccountData", m1.w, FALSE)
         ELSE
           LET m2 == MoveAll(m1.w, hb_temp, ft_recv, pda_account)
           IN IF m2.failed THEN Result("TokenError", m2.w, TRUE)
              ELSE
                LET c == close_temporary_ft(m2.w, hb_temp, caller, pda_account)
                    e == escrow_is_closing(c.w, nft_temp, exhibitor,
                                           pda_account)
                IN IF c.failed THEN Result("TokenError", c.w, TRUE)
                   ELSE IF e.failed THEN Result("TokenError", e.w, TRUE)
                   ELSE Result("Ok", e.w, FALSE)

\* ------------------------------------------------------------ the host
\* An instruction that returned Err, or that the runtime ended at a failed
\* token call, is rolled back.
Commit(op, r, nb, np) ==
    IF r.res = "Ok"
      THEN /\ last' = [op |-> op, cpi_failed |-> r.cpi_failed]
           /\ tok' = r.w.tok
           /\ lamports' = r.w.lam
           /\ auction' = r.w.auc
           /\ bids' = nb
           /\ phase' = np
           /\ UNCHANGED now
      ELSE UNCHANGED vars

Env(op) == last' = [op |-> op, cpi_failed |-> FALSE]

Init ==
    /\ now = 0
    /\ auction = ZeroAuction
    /\ lamports = [k \in Wallets \cup {"escrow"} |->
                     IF k = "escrow" THEN RentExemptMin - 1 ELSE 0]
    /\ tok = [a \in TokenAccts |->
                [exists |-> TRUE,
                 owner |-> CASE a \in {"Enft", "Tnft", "Eft"} -> "E"
                             [] a \in {"Aft", "Atmp", "Anft"} -> "A"
                             [] OTHER -> "B",
                 amount |-> CASE a = "Enft" -> NftSupply
                              [] a = "Aft" -> BalanceA
                              [] a = "Bft" -> BalanceB
                              [] OTHER -> 0]]
    /\ last = [op |-> "Init", cpi_failed |-> FALSE]
    /\ bids = 0
    /\ phase = "NonExistent"

\* --------------------------------------------------------------- inputs
\* Each instruction is tried with the references the Record stores and with
\* each of them replaced in turn; an input that fails a comparison is not
\* combined with every choice of the accounts read after it.
PdaAccounts == {PDA, Default}

Wrong(k, alt) == IF k = alt THEN Default ELSE alt

FtOf(b) == IF b = "A" THEN "Aft" ELSE "Bft"
TmpOf(b) == IF b = "A" THEN "Atmp" ELSE "Btmp"
OtherBidder(b) == IF b = "A" THEN "B" ELSE "A"

\* the token accounts a bidder names: <<temporary account, source account>>;
\* the temporary account is the bidder's own, the bidder's source account,
\* the other bidder's or the item's custody account
BidAccounts(b) ==
    {<<TmpOf(b), FtOf(b)>>, <<FtOf(b), FtOf(b)>>,
     <<TmpOf(OtherBidder(b)), FtOf(b)>>, <<TmpOf(b), FtOf(OtherBidder(b))>>,
     <<"Tnft", FtOf(b)>>}

BidInput(b, sg, hb, hbt, hbr, bt, bf, pa, pr) ==
    [bidder |-> b, is_signer |-> sg, hb |-> hb, hb_temp |-> hbt,
     hb_returning |-> hbr, bidder_temp |-> bt, bidder_ft |-> bf,
     pda_account |-> pa, price |-> pr]

BidInputs ==
    LET h == auction.highest_bidder_pubkey
        t == auction.highest_bidder_ft_temp_pubkey
        r == auction.highest_bidder_ft_returning_pubkey
    IN  {BidInput(b, FALSE, h, t, r, TmpOf(b), FtOf(b), PDA, MaxPrice) :
            b \in Bidders}
        \cup
        {BidInput(b, TRUE, x[1], x[2], x[3], TmpOf(b), FtOf(b), PDA, pr) :
            b \in Bidders, pr \in 1..MaxPrice,
            x \in {<<Wrong(h, "E"), t, r>>, <<h, Wrong(t, "Eft"), r>>,
                   <<h, t, Wrong(r, "Eft")>>}}
        \cup
        UNION {{BidInput(b, TRUE, h, t, r, a[1], a[2], pa, pr) :
                   a \in BidAccounts(b), pa \in PdaAccounts,
                   pr \in 1..MaxPrice} : b \in Bidders}

BidResult(i) ==
    process_bid(World, Clock, i.bidder, i.is_signer, i.hb, i.hb_temp,
                i.hb_returning, i.bidder_temp, i.bidder_ft, i.pda_account,
                i.price)

Bid == \E i \in BidInputs : Commit("Bid", BidResult(i), bids + 1, phase)

CancelInput(e, sg, nt, nr, pa) ==
    [exhibitor |-> e, is_signer |-> sg, nft_temp |-> nt, nft_returning |-> nr,
     pda_account |-> pa]

CancelInputs ==
    LET c == auction.exhibiting_nft_temp_pubkey
    IN  {CancelInput("E", FALSE, c, "Enft", PDA),
         CancelInput("A", TRUE, c, "Enft", PDA),
         CancelInput("E", TRUE, Wrong(c, "Anft"), "Enft", PDA)}
        \cup
        {CancelInput("E", TRUE, c, nr, pa) :
            nr \in {"Enft", "Tnft", "Eft"}, pa \in PdaAccounts}

CancelResult(i) ==
    process_cancel(World, i.exhibitor, i.is_signer, i.nft_temp,
                   i.nft_returning, i.pda_account)

Cancel == \E i \in CancelInputs : Commit("Cancel", CancelResult(i), bids, "Cancelled")

CloseInput(c, sg, e, nt, fr, ht, nr, pa, oc) ==
    [caller |-> c, is_signer |-> sg, exhibitor |-> e, nft_temp |-> nt,
     ft_recv |-> fr, hb_temp |-> ht, nft_recv |-> nr, pda_account |-> pa,
     overflow_checks |-> oc]

NftOf(c) == IF c = "B" THEN "Bnft" ELSE "Anft"

CloseInputs ==
    LET e == auction.exhibitor_pubkey
        n == auction.exhibiting_nft_temp_pubkey
        f == auction.exhibitor_ft_receiving_pubkey
        t == auction.highest_bidder_ft_temp_pubkey
    IN  {CloseInput(c, FALSE, e, n, f, t, NftOf(c), PDA, TRUE) :
            c \in {"A", Default}}
        \cup
        {CloseInput(c, TRUE, x[1], x[2], x[3], x[4], NftOf(c), PDA, TRUE) :
            c \in Bidders,
            x \in {<<Wrong(e, "A"), n, f, t>>, <<e, Wrong(n, "Bnft"), f, t>>,
                   <<e, n, Wrong(f, "Aft"), t>>, <<e, n, f, Wrong(t, "Eft")>>}}
        \cup
        {CloseInput(c, TRUE, e, n, f, t, nr, pa, FALSE) :
            c \in Wallets, nr \in {"Anft", "Bnft", "Tnft", "Eft"},
            pa \in PdaAccounts}
        \cup
        {CloseInput(c, TRUE, e, n, f, t, NftOf(c), PDA, TRUE) : c \in Bidders}

CloseResult(i) ==
    closing_the_process(World, Clock, i.caller, i.is_signer, i.exhibitor,
                        i.nft_temp, i.ft_recv, i.hb_temp, i.nft_recv,
                        i.pda_account, i.overflow_checks)

Close == \E i \in CloseInputs : Commit("Close", CloseResult(i), bids, "Settled")

\* a transfer made by a wallet outside the program while the auction is
\* open: one unit from the wallet's own account into a temporary account
TopUp ==
    \E b \in Bidders, dst \in {"Atmp", "Btmp"} :
      LET src == IF b = "A" THEN "Aft" ELSE "Bft"
      IN /\ phase = "Open"
         /\ TransferOk(tok, src, dst, b, TRUE, 1)
         /\ tok' = TransferApply(tok, src, dst, 1)
         /\ Env("TopUp")
         /\ UNCHANGED <<now, auction, lamports, bids, phase>>

Tick ==
    /\ now < MaxTime
    /\ now' = now + 1
    /\ Env("Tick")
    /\ UNCHANGED <<auction, lamports, tok, bids, phase>>

FundEscrow ==
    /\ lamports["escrow"] < RentExemptMin
    /\ lamports' = [lamports EXCEPT !["escrow"] = @ + 1]
    /\ Env("FundEscrow")
    /\ UNCHANGED <<now, auction, tok, bids, phase>>

\* the proceeds account the exhibitor names: the exhibitor's currency
\* account, or an account that cannot receive currency (Create stores the
\* key without looking at the account)
ProceedsAccounts == {"Eft", "Enft"}

CreateInput(sg, nt, fr, ip, secs, oc) ==
    [is_signer |-> sg, nft_temp |-> nt, ft_recv |-> fr, initial_price |-> ip,
     secs |-> secs, overflow_checks |-> oc]

\* every duration with the exhibitor's currency account, and the one-second
\* auction with the account that cannot receive currency
CreateInputs ==
    {CreateInput(sg, nt, "Eft", ip, secs, oc) :
        sg \in BOOLEAN, nt \in {"Tnft", "Anft"}, ip \in InitialPrices,
        secs \in Durations, oc \in BOOLEAN}
    \cup
    {CreateInput(TRUE, "Tnft", fr, ip, Wide(0, 1), oc) :
        fr \in ProceedsAccounts, ip \in InitialPrices, oc \in BOOLEAN}

CreateResult(i) ==
    process_exhibit(World, Clock, "E", i.is_signer, "Enft", i.nft_temp,
                    i.ft_recv, i.initial_price, i.secs, i.overflow_checks)

Create == \E i \in CreateInputs : Commit("Create", CreateResult(i), bids, "Open")

\* =============================================================== claims
ProgramOps == {"Create", "Bid", "Cancel", "Close"}

RecordExists == UnpackError(auction) = "Ok"
HasLeader == RecordExists /\ auction.highest_bidder_pubkey # Default
NoLeader == RecordExists /\ auction.highest_bidder_pubkey = Default

\* now >= end_at
Ended == LeI64(auction.end_at, Clock)

\* the step is an instruction `op` that took effect
Did(op) == last'.op = op /\ vars' # vars

GuardErrors == {"MissingRequiredSignature", "InvalidAccountData",
                "UninitializedAccount", "InactiveAuction", "ActiveAuction",
                "InsufficientBidPrice", "InvalidInstruction", "AlreadyBid",
                "NotRentExempt", "AccountAlreadyInitialized"}

\* the stages of the Bid `i` in the current state
StagesOf(i) ==
    BidStages(World, i.bidder, i.hb, i.hb_temp, i.hb_returning, i.bidder_temp,
              i.bidder_ft, i.pda_account, i.price)

PastGuards(i) == BidResult(i).res \in {"Ok", "TokenError"}

\* C1: every successful Bid made while a leader exists pays the previous
\* price into the previous leader's stored refund account and leaves the
\* previous leader's temporary account closed.
C1_RefundAndClose ==
    [][ (Did("Bid") /\ auction.highest_bidder_pubkey # Default)
        => LET r == auction.highest_bidder_ft_returning_pubkey
               t == auction.highest_bidder_ft_temp_pubkey
           IN /\ tok'[r].amount = tok[r].amount + auction.price
              /\ ~tok'[t].exists ]_vars

\* a second Bid took effect: the first leader has the money back and the
\* first leader's temporary account is gone
C1_Witness ==
    /\ last.op = "Bid"
    /\ bids >= 2
    /\ HasLeader
    /\ LET p == OtherBidder(auction.highest_bidder_pubkey)
       IN /\ ~tok[TmpOf(p)].exists
          /\ tok[FtOf(p)].amount = (IF p = "A" THEN BalanceA ELSE BalanceB)

\* C2 as stated: after a successful instruction, a leader's temporary account
\* exists, belongs to the program address and holds exactly the current price.
C2_CustodyExact ==
    (last.op \in ProgramOps /\ HasLeader)
    => LET t == auction.highest_bidder_ft_temp_pubkey
       IN /\ IsTokenAccount(tok, t)
          /\ tok[t].owner = PDA
          /\ tok[t].amount = auction.price

\* C2 amended: whenever the Record names a leader, the leader's temporary
\* account exists, belongs to the program address and holds at least the
\* current price.
C2_CustodyCovers ==
    HasLeader
    => LET t == auction.highest_bidder_ft_temp_pubkey
       IN /\ IsTokenAccount(tok, t)
          /\ tok[t].owner = PDA
          /\ tok[t].amount >= auction.price

C2_Witness ==
    /\ last.op = "Bid"
    /\ HasLeader
    /\ tok[auction.highest_bidder_ft_temp_pubkey].amount > auction.price

\* C3: the price never decreases while the Record lives, a successful Bid
\* raises it strictly, and no other step changes it.
C3_PriceIncreases ==
    [][ /\ Did("Bid") => auction'.price > auction.price
        /\ (auction.is_initialized /\ auction'.is_initialized)
             => /\ auction'.price >= auction.price
                /\ ~Did("Bid") => auction'.price = auction.price ]_vars

C3_Witness == last.op = "Bid" /\ bids >= 2

\* C4 as stated: on an existing Record, Cancel succeeds exactly when no Bid
\* has succeeded.
C4_CancelIffNoBid ==
    RecordExists =>
      \A i \in CancelInputs : (CancelResult(i).res = "Ok") <=> (bids = 0)

\* C4 amended: Cancel succeeds only when no Bid has succeeded; once a Bid has
\* succeeded every Cancel is rejected by a guard, with AlreadyBid when the
\* exhibitor signs and names the stored custody account, and no step made
\* after a Bid is a Cancel.
C4_CancelRejectedAfterBid ==
    /\ [](RecordExists =>
            \A i \in CancelInputs :
              /\ CancelResult(i).res = "Ok" => bids = 0
              /\ bids > 0 =>
                   CancelResult(i).res \in {"MissingRequiredSignature",
                                            "InvalidAccountData", "AlreadyBid"}
              /\ (/\ bids > 0
                  /\ i.is_signer
                  /\ i.exhibitor = auction.exhibitor_pubkey
                  /\ i.nft_temp = auction.exhibiting_nft_temp_pubkey)
                   => CancelResult(i).res = "AlreadyBid")
    /\ [][ Did("Cancel") => (bids = 0 /\ bids' = 0) ]_vars

C4_Witness ==
    /\ RecordExists
    /\ bids > 0
    /\ \E i \in CancelInputs : CancelResult(i).res = "AlreadyBid"

\* C5 as stated: on an existing Record, Close succeeds exactly when
\* now >= end_at, and fails with ActiveAuction whenever now < end_at.
C5_CloseIffEnded ==
    RecordExists =>
      \A i \in CloseInputs :
        /\ (CloseResult(i).res = "Ok") <=> Ended
        /\ ~Ended => CloseResult(i).res = "ActiveAuction"

\* C5 amended: Close succeeds only when now >= end_at, and whenever
\* now < end_at every Close whose caller signs fails with ActiveAuction,
\* whoever the caller is.
C5_CloseOnlyAfterEnd ==
    RecordExists =>
      \A i \in CloseInputs :
        /\ CloseResult(i).res = "Ok" => Ended
        /\ (i.is_signer /\ ~Ended) => CloseResult(i).res = "ActiveAuction"

C5_Witness ==
    /\ RecordExists
    /\ ~Ended
    /\ HasLeader
    /\ \E i \in CloseInputs :
         /\ i.caller = auction.highest_bidder_pubkey
         /\ CloseResult(i).res = "ActiveAuction"

\* C6: while no Bid has succeeded, every Close is rejected, at any time,
\* before it has made any token call, and no step taken in such a state is a
\* Close: the item does not leave custody.
C6_NoCloseWithoutLeader ==
    /\ [](NoLeader =>
            \A i \in CloseInputs :
              /\ CloseResult(i).res \in {"MissingRequiredSignature",
                                         "ActiveAuction", "InvalidAccountData"}
              /\ CloseResult(i).w = World)
    /\ [][ NoLeader => ~Did("Close") ]_vars

C6_Witness ==
    /\ NoLeader
    /\ Ended
    /\ tok[auction.exhibiting_nft_temp_pubkey].amount = NftSupply
    /\ \E i \in CloseInputs :
         /\ i.is_signer
         /\ i.exhibitor = auction.exhibitor_pubkey
         /\ i.nft_temp = auction.exhibiting_nft_temp_pubkey
         /\ i.ft_recv = auction.exhibitor_ft_receiving_pubkey
         /\ i.hb_temp = auction.highest_bidder_ft_temp_pubkey
         /\ CloseResult(i).res = "InvalidAccountData"

\* C7 as stated: a successful Close puts the item into a receiving account,
\* raises the proceeds account by exactly the current price, closes the
\* leader's temporary account and the item's custody account, and destroys
\* the Record with its lamports credited to the exhibitor.
C7_SettlementExact ==
    [][ Did("Close")
        => LET c == auction.exhibiting_nft_temp_pubkey
               t == auction.highest_bidder_ft_temp_pubkey
               f == auction.exhibitor_ft_receiving_pubkey
               e == auction.exhibitor_pubkey
           IN /\ \E a \in NftAccts \ {c} :
                   tok'[a].amount = tok[a].amount + NftSupply
              /\ tok'[f].amount = tok[f].amount + auction.price
              /\ ~tok'[t].exists
              /\ ~tok'[c].exists
              /\ ~auction'.has_data
              /\ lamports'["escrow"] = 0
              /\ lamports'[e] >= lamports[e] + lamports["escrow"] ]_vars

\* C7 amended: a successful Close moves the whole live balance of the
\* leader's temporary account, which is at least the current price, to the
\* proceeds account, and the item from its custody account to the receiving
\* account the caller names; both custody accounts are closed, the Record is
\* destroyed and its lamports are credited to the exhibitor.
C7_SettlementLive ==
    [][ Did("Close")
        => LET c == auction.exhibiting_nft_temp_pubkey
               t == auction.highest_bidder_ft_temp_pubkey
               f == auction.exhibitor_ft_receiving_pubkey
               e == auction.exhibitor_pubkey
           IN /\ tok[c].amount = NftSupply
              /\ \E a \in NftAccts \ {c} :
                   tok'[a].amount = tok[a].amount + NftSupply
              /\ tok[t].amount >= auction.price
              /\ tok'[f].amount = tok[f].amount + tok[t].amount
              /\ ~tok'[t].exists
              /\ ~tok'[c].exists
              /\ ~auction'.has_data
              /\ lamports'["escrow"] = 0
              /\ lamports'[e] = lamports[e] + lamports["escrow"]
                                  + TokenRent ]_vars

C7_Witness ==
    /\ last.op = "Close"
    /\ phase = "Settled"
    /\ tok["Eft"].amount >= 2
    /\ ~tok["Tnft"].exists

\* C8: an instruction in which a token call fails does not succeed, so that
\* nothing of it remains; a Bid that passed the guards and took the deposit
\* in, and whose refund of the previous leader or whose close of the previous
\* leader's temporary account cannot be applied, fails.
C8_CustodyFailureAborts ==
    /\ last.op \in ProgramOps => ~last.cpi_failed
    /\ \A i \in CreateInputs :
         CreateResult(i).cpi_failed => CreateResult(i).res = "TokenError"
    /\ \A i \in CancelInputs :
         CancelResult(i).cpi_failed => CancelResult(i).res = "TokenError"
    /\ \A i \in CloseInputs :
         CloseResult(i).cpi_failed => CloseResult(i).res = "TokenError"
    /\ \A i \in BidInputs :
         LET d == BidDeposit(World, i.bidder, i.bidder_temp, i.bidder_ft,
                             i.price)
             refunded == TransferApply(d.w.tok, i.hb_temp, i.hb_returning,
                                       auction.price)
             refund_ok == TransferOk(d.w.tok, i.hb_temp, i.hb_returning, PDA,
                                     PdaSigns(i.pda_account), auction.price)
             close_ok == CloseAccountOk(refunded, i.hb_temp, i.hb, PDA,
                                        PdaSigns(i.pda_account))
         IN /\ BidResult(i).cpi_failed => BidResult(i).res = "TokenError"
            /\ (HasLeader /\ PastGuards(i) /\ ~d.failed
                  /\ ~(refund_ok /\ close_ok))
                 => BidResult(i).res = "TokenError"

\* a Bid that would pass the guards and take the deposit in, and whose refund
\* cannot be applied; another whose refund is paid and whose close cannot be
\* applied, the previous leader's temporary account having been topped up
C8_Witness ==
    /\ HasLeader
    /\ \E i \in BidInputs :
         /\ BidResult(i).res = "TokenError"
         /\ Len(StagesOf(i)) = 3
    /\ \E i \in BidInputs :
         /\ BidResult(i).res = "TokenError"
         /\ Len(StagesOf(i)) = 4
         /\ i.pda_account = PDA
         /\ tok[i.hb_temp].amount > auction.price

\* C9: the item is held by exactly one account, and currency held under the
\* program address is in the temporary account the Record names for the
\* leader, nowhere else, and nowhere once the Record is destroyed.
C9_NoAssetLost ==
    /\ Cardinality({a \in NftAccts : tok[a].exists /\ tok[a].amount > 0}) = 1
    /\ \A a \in FtAccts :
         (tok[a].exists /\ tok[a].owner = PDA /\ tok[a].amount > 0)
           => (HasLeader /\ a = auction.highest_bidder_ft_temp_pubkey)

\* after an outbidding and a top-up of the new leader's temporary account;
\* after a settlement
C9_Witness ==
    \/ /\ HasLeader
       /\ bids >= 2
       /\ tok[auction.highest_bidder_ft_temp_pubkey].amount > auction.price
    \/ /\ phase = "Settled"
       /\ bids >= 2

\* C10: Create succeeds only on a Record never initialized, Bid, Cancel and
\* Close only on an initialized Record, and after a successful Cancel or
\* Close every instruction is rejected.
C10_Lifecycle ==
    /\ [][ /\ Did("Create")
                => (~auction.is_initialized /\ phase = "NonExistent")
           /\ (Did("Bid") \/ Did("Cancel") \/ Did("Close"))
                => (auction.is_initialized /\ phase = "Open")
           /\ phase \in {"Cancelled", "Settled"}
                => (phase' = phase /\ ~auction'.is_initialized) ]_vars
    /\ [](phase \in {"Cancelled", "Settled"} =>
            /\ \A i \in BidInputs : BidResult(i).res \in GuardErrors
            /\ \A i \in CancelInputs : CancelResult(i).res \in GuardErrors
            /\ \A i \in CloseInputs : CloseResult(i).res \in GuardErrors
            /\ \A sg \in BOOLEAN, d \in Durations, p \in InitialPrices,
                  oc \in BOOLEAN :
                 process_exhibit(World, Clock, "E", sg, "Enft", "Tnft", "Eft",
                                 p, d, oc).res \in GuardErrors)

C10_Witness ==
    /\ phase = "Settled"
    /\ bids > 0
    /\ \E i \in CloseInputs :
         i.is_signer /\ CloseResult(i).res = "InvalidAccountData"
    /\ process_exhibit(World, Clock, "E", TRUE, "Enft", "Tnft", "Eft", 0,
                       Wide(0, 1), TRUE).res = "InvalidAccountData"

\* C11: while the Record exists the account it names as the item's custody
\* exists, belongs to the program address and holds the item; a Bid changes
\* neither that reference nor the account, and the item leaves the account
\* only in a Cancel or a Close.
C11_ItemInCustody ==
    /\ [](RecordExists =>
            LET c == auction.exhibiting_nft_temp_pubkey
            IN /\ IsTokenAccount(tok, c)
               /\ tok[c].owner = PDA
               /\ tok[c].amount >= NftSupply)
    /\ [][ /\ Did("Bid")
             => LET c == auction.exhibiting_nft_temp_pubkey
                IN /\ auction'.exhibiting_nft_temp_pubkey = c
                   /\ tok'[c] = tok[c]
           /\ (/\ RecordExists
               /\ tok'[auction.exhibiting_nft_temp_pubkey]
                    # tok[auction.exhibiting_nft_temp_pubkey])
             => (Did("Cancel") \/ Did("Close")) ]_vars

C11_Witness ==
    /\ last.op = "Bid"
    /\ bids >= 2
    /\ RecordExists
    /\ tok[auction.exhibiting_nft_temp_pubkey].owner = PDA
    /\ tok[auction.exhibiting_nft_temp_pubkey].amount = NftSupply

\* C12: a Close that succeeds is signed by the stored leader; a Close by any
\* other identity is rejected by a guard before any token call.
C12_OnlyLeaderCloses ==
    RecordExists =>
      \A i \in CloseInputs :
        /\ CloseResult(i).res = "Ok"
             => (i.is_signer /\ i.caller = auction.highest_bidder_pubkey)
        /\ i.caller # auction.highest_bidder_pubkey
             => /\ CloseResult(i).res \in {"MissingRequiredSignature",
                                           "ActiveAuction", "InvalidAccountData"}
                /\ CloseResult(i).w = World

C12_Witness ==
    /\ RecordExists
    /\ Ended
    /\ bids >= 2
    /\ \E i \in CloseInputs :
         /\ i.is_signer
         /\ i.caller = OtherBidder(auction.highest_bidder_pubkey)
         /\ i.hb_temp = auction.highest_bidder_ft_temp_pubkey
         /\ i.exhibitor = auction.exhibitor_pubkey
         /\ CloseResult(i).res = "InvalidAccountData"
    /\ \E i \in CloseInputs :
         /\ i.caller = auction.exhibitor_pubkey
         /\ i.is_signer
         /\ i.hb_temp = auction.highest_bidder_ft_temp_pubkey
         /\ CloseResult(i).res = "InvalidAccountData"
    /\ \E i \in CloseInputs : CloseResult(i).res = "Ok"

\* a Bid input that names the stored leader references
RightLeader(i) ==
    /\ i.hb = auction.highest_bidder_pubkey
    /\ i.hb_temp = auction.highest_bidder_ft_temp_pubkey
    /\ i.hb_returning = auction.highest_bidder_ft_returning_pubkey

\* C13 as stated: every Bid of an amount not above the price is rejected with
\* InsufficientBidPrice.
C13_LowBidInsufficient ==
    RecordExists =>
      \A i \in BidInputs :
        i.price <= auction.price
          => /\ BidResult(i).res = "InsufficientBidPrice"
             /\ BidResult(i).w = World

\* C13 amended: every Bid of an amount not above the price is rejected before
\* any token call; the error is InsufficientBidPrice when the bidder signs
\* and now < end_at, whatever references are supplied, MissingRequiredSignature
\* when the bidder does not sign, InactiveAuction when the bidder signs and
\* now >= end_at.
C13_LowBidRejected ==
    RecordExists =>
      \A i \in BidInputs :
        i.price <= auction.price
          => /\ BidResult(i).w = World
             /\ BidResult(i).res =
                  (IF ~i.is_signer THEN "MissingRequiredSignature"
                   ELSE IF Ended THEN "InactiveAuction"
                   ELSE "InsufficientBidPrice")

C13_Witness ==
    /\ RecordExists
    /\ ~Ended
    /\ HasLeader
    /\ \E i \in BidInputs :
         /\ i.is_signer
         /\ RightLeader(i)
         /\ i.bidder # auction.highest_bidder_pubkey
         /\ i.price = auction.price
         /\ tok[i.bidder_ft].amount >= i.price
         /\ BidResult(i).res = "InsufficientBidPrice"
    /\ \E i \in BidInputs :
         i.price < auction.price /\ BidResult(i).res = "InsufficientBidPrice"

\* C14 as stated: every Bid made at now >= end_at is rejected with
\* InactiveAuction, no state allows both a Bid and a Close, and from
\* now >= end_at on the price and the leader stay as they are.
C14_ExpiredBidTemporal ==
    /\ []((RecordExists /\ Ended) =>
            \A i \in BidInputs : BidResult(i).res = "InactiveAuction")
    /\ [](RecordExists =>
            ~(/\ \E i \in BidInputs : BidResult(i).res = "Ok"
              /\ \E j \in CloseInputs : CloseResult(j).res = "Ok"))
    /\ [][ (RecordExists /\ Ended /\ auction'.is_initialized)
             => /\ auction'.price = auction.price
                /\ auction'.highest_bidder_pubkey
                     = auction.highest_bidder_pubkey ]_vars

\* C14 amended: every Bid made at now >= end_at is rejected before any token
\* call, with InactiveAuction when the bidder signs and with
\* MissingRequiredSignature when not; no state allows both a Bid and a Close;
\* from now >= end_at on no Bid takes effect and the price and the leader stay
\* as they are while the Record lives.
C14_ExpiredBidRejected ==
    /\ []((RecordExists /\ Ended) =>
            \A i \in BidInputs :
              /\ BidResult(i).w = World
              /\ BidResult(i).res = (IF i.is_signer THEN "InactiveAuction"
                                     ELSE "MissingRequiredSignature"))
    /\ [](RecordExists =>
            ~(/\ \E i \in BidInputs : BidResult(i).res = "Ok"
              /\ \E j \in CloseInputs : CloseResult(j).res = "Ok"))
    /\ [][ (RecordExists /\ Ended)
             => /\ ~Did("Bid")
                /\ auction'.is_initialized
                     => /\ auction'.price = auction.price
                        /\ auction'.highest_bidder_pubkey
                             = auction.highest_bidder_pubkey
                        /\ auction'.end_at = auction.end_at ]_vars

C14_Witness ==
    /\ RecordExists
    /\ Ended
    /\ HasLeader
    /\ \E i \in BidInputs :
         /\ i.is_signer
         /\ RightLeader(i)
         /\ i.bidder # auction.highest_bidder_pubkey
         /\ i.price > auction.price
         /\ tok[i.bidder_ft].amount >= i.price
         /\ BidResult(i).res = "InactiveAuction"
    /\ \E j \in CloseInputs : CloseResult(j).res = "Ok"

\* C15: a Bid in which one of the three leader references differs from the
\* stored one is rejected before any token call (with InvalidInstruction when
\* it passes the earlier guards); in a successful Bid the previous price
\* leaves the stored temporary account and arrives in the stored refund
\* account, and no other account than that one and the new temporary account
\* gains.
C15_LeaderReferences ==
    /\ [](RecordExists =>
            \A i \in BidInputs :
              ~RightLeader(i)
                => /\ BidResult(i).w = World
                   /\ BidResult(i).res =
                        (IF ~i.is_signer THEN "MissingRequiredSignature"
                         ELSE IF Ended THEN "InactiveAuction"
                         ELSE IF i.price <= auction.price
                           THEN "InsufficientBidPrice"
                         ELSE "InvalidInstruction"))
    /\ [][ (Did("Bid") /\ HasLeader)
             => LET r == auction.highest_bidder_ft_returning_pubkey
                    t == auction.highest_bidder_ft_temp_pubkey
                    n == auction'.highest_bidder_ft_temp_pubkey
                IN /\ r # t
                        => /\ tok'[t].amount = tok[t].amount - auction.price
                           /\ tok'[r].amount = tok[r].amount + auction.price
                   /\ \A a \in FtAccts \ {r, n} :
                        tok'[a].amount <= tok[a].amount ]_vars

\* after an outbidding, a Bid that names another refund account than the
\* stored one and would pass every earlier guard
C15_Witness ==
    /\ last.op = "Bid"
    /\ bids >= 2
    /\ \E i \in BidInputs :
         /\ i.is_signer
         /\ i.price > auction.price
         /\ i.hb = auction.highest_bidder_pubkey
         /\ i.hb_temp = auction.highest_bidder_ft_temp_pubkey
         /\ i.hb_returning # auction.highest_bidder_ft_returning_pubkey
         /\ BidResult(i).res = "InvalidInstruction"

\* C16 as stated: every Bid by the stored leader is rejected with AlreadyBid,
\* whatever the amount.
C16_RebidAlreadyBid ==
    HasLeader =>
      \A i \in BidInputs :
        i.bidder = auction.highest_bidder_pubkey
          => /\ BidResult(i).res = "AlreadyBid"
             /\ BidResult(i).w = World

\* C16 amended: every Bid by the stored leader is rejected before any token
\* call; the error is AlreadyBid when the earlier guards pass (signed,
\* now < end_at, amount above the price, stored leader references), and a
\* successful Bid always changes the leader.
C16_RebidRejected ==
    /\ [](HasLeader =>
            \A i \in BidInputs :
              i.bidder = auction.highest_bidder_pubkey
                => /\ BidResult(i).w = World
                   /\ BidResult(i).res =
                        (IF ~i.is_signer THEN "MissingRequiredSignature"
                         ELSE IF Ended THEN "InactiveAuction"
                         ELSE IF i.price <= auction.price
                           THEN "InsufficientBidPrice"
                         ELSE IF ~RightLeader(i) THEN "InvalidInstruction"
                         ELSE "AlreadyBid"))
    /\ [][ Did("Bid")
             => /\ auction'.highest_bidder_pubkey # auction.highest_bidder_pubkey
                /\ auction'.highest_bidder_pubkey # Default ]_vars

C16_Witness ==
    /\ HasLeader
    /\ ~Ended
    /\ last.op = "Bid"
    /\ \E i \in BidInputs :
         /\ i.bidder = auction.highest_bidder_pubkey
         /\ i.price > auction.price
         /\ i.bidder_temp = TmpOf(i.bidder)
         /\ TransferOk(tok, i.bidder_ft, i.bidder_temp, i.bidder, TRUE, i.price)
         /\ BidResult(i).res = "AlreadyBid"

HeldUnderPda(x, a, amt) ==
    /\ IsTokenAccount(x.tok, a)
    /\ x.tok[a].owner = PDA
    /\ x.tok[a].amount >= amt

\* funds are in custody for the leader the Record names at stage x
CurrentCovered(x) ==
    /\ x.auc.highest_bidder_pubkey # Default
    /\ HeldUnderPda(x, x.auc.highest_bidder_ft_temp_pubkey, x.auc.price)

\* the bid of `i` is in custody at stage x
IncomingCovered(x, i) == HeldUnderPda(x, i.bidder_temp, i.price)

SameOwners(x, y) == \A a \in TokenAccts : x.tok[a].owner = y.tok[a].owner
SameAmounts(x, y) == \A a \in TokenAccts : x.tok[a].amount = y.tok[a].amount

\* deposit, change of owner, refund, close, Record update, in this order;
\* the stages end in what process_bid returns
StageOrder(i) ==
    LET st == StagesOf(i)
    IN /\ st[1] = World
       /\ st[Len(st)] = BidResult(i).w
       /\ (Len(st) = 6) <=> (BidResult(i).res = "Ok")
       /\ \A k \in 1..Len(st) : k < 6 => st[k].auc = auction
       /\ Len(st) >= 2 => (SameOwners(st[1], st[2])
                            /\ st[2].tok[i.bidder_temp].amount
                                 >= st[1].tok[i.bidder_temp].amount)
       /\ Len(st) >= 3 => (SameAmounts(st[2], st[3])
                            /\ st[3].tok[i.bidder_temp].owner = PDA)
       /\ Len(st) >= 4 => (SameOwners(st[3], st[4])
                            /\ \A a \in TokenAccts :
                                 st[4].tok[a].exists = st[3].tok[a].exists)
       /\ Len(st) >= 5 => SameAmounts(st[4], st[5])
       /\ Len(st) >= 6 => (st[6].tok = st[5].tok /\ st[6].lam = st[5].lam
                            /\ st[6].auc # st[5].auc)

\* C17 as stated: a Bid issues deposit, change of owner, refund, close and
\* Record update in this order, and at every stage funds are held under the
\* program address for the current or for the incoming leader.
C17_FundsAtEveryStage ==
    RecordExists =>
      \A i \in BidInputs :
        PastGuards(i)
          => /\ StageOrder(i)
             /\ \A k \in 1..Len(StagesOf(i)) :
                  \/ CurrentCovered(StagesOf(i)[k])
                  \/ IncomingCovered(StagesOf(i)[k], i)

\* C17 amended: a Bid issues deposit, change of owner, refund, close and
\* Record update in this order; at every stage of a Bid on a Record that
\* names a leader funds are held under the program address for the current or
\* for the incoming leader, and in every Bid the new bid is held under the
\* program address from the change of owner on.
C17_FundsOnceInCustody ==
    RecordExists =>
      \A i \in BidInputs :
        PastGuards(i)
          => /\ StageOrder(i)
             /\ LET st == StagesOf(i)
                IN \A k \in 1..Len(st) :
                     /\ auction.highest_bidder_pubkey # Default
                          => \/ CurrentCovered(st[k])
                             \/ IncomingCovered(st[k], i)
                     /\ k >= 3 => IncomingCovered(st[k], i)

C17_Witness ==
    /\ HasLeader
    /\ \E i \in BidInputs :
         /\ BidResult(i).res = "Ok"
         /\ ~BidResult(i).cpi_failed
         /\ ~CurrentCovered(StagesOf(i)[4])
         /\ IncomingCovered(StagesOf(i)[4], i)
         /\ CurrentCovered(StagesOf(i)[2])
         /\ ~IncomingCovered(StagesOf(i)[2], i)
    /\ \E i \in BidInputs :
         BidResult(i).res = "TokenError" /\ Len(StagesOf(i)) = 2

\* C18: a successful Create stores the initial price and end_at = now +
\* duration, the duration taken as the unsigned number it is, so that end_at
\* is not before now.
C18_EndAtIsNowPlusDuration ==
    [][ Did("Create")
        => /\ auction'.price \in InitialPrices
           /\ \E d \in Durations :
                auction'.end_at = Wide(d.top, now + d.low)
           /\ LeI64(Clock, auction'.end_at) ]_vars

\* a Close input that names the four stored references
RightCloseRefs(i) ==
    /\ i.exhibitor = auction.exhibitor_pubkey
    /\ i.nft_temp = auction.exhibiting_nft_temp_pubkey
    /\ i.ft_recv = auction.exhibitor_ft_receiving_pubkey
    /\ i.hb_temp = auction.highest_bidder_ft_temp_pubkey

CloseGuardErrors ==
    {"MissingRequiredSignature", "ActiveAuction", "InvalidAccountData"}

\* C19 as stated: a Close in which the exhibitor, the item's custody account,
\* the proceeds account or the leader's temporary account differs from the
\* Record is rejected, and so is one whose receiving account is not the one
\* the Record fixes: in one state at most one receiving account is accepted.
C19_AllCloseRefsChecked ==
    RecordExists =>
      /\ \A i \in CloseInputs :
           ~RightCloseRefs(i)
             => (CloseResult(i).res \in CloseGuardErrors
                  /\ CloseResult(i).w = World)
      /\ \A i, j \in CloseInputs :
           (CloseResult(i).res = "Ok" /\ CloseResult(j).res = "Ok")
             => i.nft_recv = j.nft_recv

\* C19 amended: a Close in which the exhibitor, the item's custody account,
\* the proceeds account or the leader's temporary account differs from the
\* Record is rejected before any token call; a Close that succeeds names all
\* four as stored, and the guards do not look at the receiving account.
C19_FourCloseRefsChecked ==
    RecordExists =>
      \A i \in CloseInputs :
        /\ ~RightCloseRefs(i)
             => (CloseResult(i).res \in CloseGuardErrors
                  /\ CloseResult(i).w = World)
        /\ CloseResult(i).res = "Ok" => RightCloseRefs(i)
        /\ LET g == CloseResult(i).res \in CloseGuardErrors
           IN \A nr \in TokenAccts :
                g <=> (CloseResult([i EXCEPT !.nft_recv = nr]).res
                         \in CloseGuardErrors)

C19_Witness ==
    /\ HasLeader
    /\ Ended
    /\ \E i, j \in CloseInputs :
         /\ CloseResult(i).res = "Ok"
         /\ CloseResult(j).res = "Ok"
         /\ i.nft_recv # j.nft_recv
    /\ \E i \in CloseInputs :
         /\ i.is_signer
         /\ i.caller = auction.highest_bidder_pubkey
         /\ i.ft_recv # auction.exhibitor_ft_receiving_pubkey
         /\ CloseResult(i).res = "InvalidAccountData"

\* a Cancel input by the exhibitor that names the stored custody account
RightCancelRefs(i) ==
    /\ i.exhibitor = auction.exhibitor_pubkey
    /\ i.nft_temp = auction.exhibiting_nft_temp_pubkey

\* C20: a Cancel that succeeds is signed by the exhibitor and names the
\* stored custody account, any other Cancel is rejected before any token
\* call, and a successful Cancel empties the custody account into another
\* account and destroys the Record, its lamports credited to the exhibitor.
C20_CancelByExhibitor ==
    /\ [](RecordExists =>
            \A i \in CancelInputs :
              /\ CancelResult(i).res = "Ok"
                   => (i.is_signer /\ RightCancelRefs(i))
              /\ ~(i.is_signer /\ RightCancelRefs(i))
                   => /\ CancelResult(i).res \in {"MissingRequiredSignature",
                                                  "InvalidAccountData"}
                      /\ CancelResult(i).w = World)
    /\ [][ Did("Cancel")
             => LET c == auction.exhibiting_nft_temp_pubkey
                    e == auction.exhibitor_pubkey
                IN /\ tok'[c].amount = 0
                   /\ \E a \in NftAccts \ {c} :
                        tok'[a].amount = tok[a].amount + tok[c].amount
                   /\ ~auction'.has_data
                   /\ lamports'["escrow"] = 0
                   /\ lamports'[e] >= lamports[e] + lamports["escrow"] ]_vars

\* the exhibitor took the item back
C20_Witness ==
    /\ last.op = "Cancel"
    /\ phase = "Cancelled"
    /\ ~tok["Tnft"].exists
    /\ tok["Enft"].amount = NftSupply
    /\ ~auction.has_data

\* C21: while the Record exists, either it names no leader and a Cancel by
\* the exhibitor succeeds, at any time, or it names a leader and, from
\* now >= end_at on, a Close by that leader succeeds: an open auction can
\* always be brought to its end once end_at has passed.
C21_NeverStuck ==
    /\ NoLeader =>
         \E i \in CancelInputs :
           /\ i.exhibitor = auction.exhibitor_pubkey
           /\ CancelResult(i).res = "Ok"
    /\ (HasLeader /\ Ended) =>
         \E i \in CloseInputs :
           /\ i.caller = auction.highest_bidder_pubkey
           /\ CloseResult(i).res = "Ok"

Next == Tick \/ FundEscrow \/ TopUp \/ Create \/ Bid \/ Cancel \/ Close

Spec == Init /\ [][Next]_vars
====
